---- MODULE Spec2Model ----
(***************************************************************************)
(* Model of the pricing / signal pipeline of polymarket-agent-mvp:         *)
(*   src/src/collector/orderbook.py      (validity, depth, normalizer)     *)
(*   src/src/strategy/fair_value.py      (per-token EMA fair value)        *)
(*   src/src/strategy/filters.py         (filter chain)                    *)
(*   src/src/strategy/signal_generation.py (generate_signals)              *)
(*                                                                         *)
(* Python floats are modelled as exact rationals plus the three special    *)
(* values nan, +inf, -inf; rounding error and overflow of finite           *)
(* arithmetic are abstracted away.  Optional[float] adds the value None.   *)
(* market_id / token_id are opaque strings in the code; here they are      *)
(* small naturals whose numeric order stands for the string order.         *)
(***************************************************************************)
EXTENDS Integers, Sequences, FiniteSets, TLC

\* ------------------------------------------------------------------------
\* Bounds of the model
\* ------------------------------------------------------------------------
NumTokens == 2
MaxObs == 2
MaxBooks == 2
MaxLevels == 2

Tokens == 1..NumTokens

\* ------------------------------------------------------------------------
\* Optional[float]: [k, n, d] with k in {"fin","nan","pinf","ninf","none"};
\* a finite value is the rational n/d in lowest terms, d > 0.
\* ------------------------------------------------------------------------
Abs(i) == IF i < 0 THEN -i ELSE i

RECURSIVE GCD(_, _)
GCD(a, b) == IF b = 0 THEN a ELSE GCD(b, a % b)

F(n, d) ==
  LET g == GCD(Abs(n), Abs(d))
      s == IF d < 0 THEN -1 ELSE 1
  IN  [k |-> "fin", n |-> (s * n) \div g, d |-> (s * d) \div g]

NoneV == [k |-> "none", n |-> 0, d |-> 1]
NaN   == [k |-> "nan",  n |-> 0, d |-> 1]
PInf  == [k |-> "pinf", n |-> 0, d |-> 1]
NInf  == [k |-> "ninf", n |-> 0, d |-> 1]
Zero  == F(0, 1)
One   == F(1, 1)

IsNone(x) == x.k = "none"
\* math.isfinite
IsFinite(x) == x.k = "fin"

\* x < y on floats (any comparison with nan is False)
FLt(x, y) ==
  CASE x.k = "nan" \/ y.k = "nan" -> FALSE
    [] x.k = "pinf" -> FALSE
    [] x.k = "ninf" -> y.k # "ninf"
    [] y.k = "pinf" -> TRUE
    [] y.k = "ninf" -> FALSE
    [] OTHER -> x.n * y.d < y.n * x.d
FGt(x, y) == FLt(y, x)
FLe(x, y) == x.k # "nan" /\ y.k # "nan" /\ ~FLt(y, x)
FGe(x, y) == FLe(y, x)

FNeg(x) ==
  CASE x.k = "fin" -> F(-x.n, x.d)
    [] x.k = "pinf" -> NInf
    [] x.k = "ninf" -> PInf
    [] OTHER -> x

Sign(x) ==
  CASE x.k = "pinf" -> 1
    [] x.k = "ninf" -> -1
    [] OTHER -> IF x.n > 0 THEN 1 ELSE IF x.n < 0 THEN -1 ELSE 0

FAdd(x, y) ==
  CASE x.k = "nan" \/ y.k = "nan" -> NaN
    [] x.k = "fin" /\ y.k = "fin" -> F(x.n * y.d + y.n * x.d, x.d * y.d)
    [] x.k = "fin" -> y
    [] y.k = "fin" -> x
    [] OTHER -> IF x.k = y.k THEN x ELSE NaN
FSub(x, y) == FAdd(x, FNeg(y))

FMul(x, y) ==
  CASE x.k = "nan" \/ y.k = "nan" -> NaN
    [] x.k = "fin" /\ y.k = "fin" -> F(x.n * y.n, x.d * y.d)
    [] OTHER -> IF Sign(x) * Sign(y) = 0 THEN NaN
                ELSE IF Sign(x) * Sign(y) > 0 THEN PInf ELSE NInf

\* x / y for finite x and finite y # 0 (the only divisions the code makes:
\* by 2.0 and by a mid_price already checked > 0 and finite)
FDiv(x, y) == F(x.n * y.d, x.d * y.n)

\* abs() on floats
FAbs(x) == IF FLt(x, Zero) THEN FNeg(x) ELSE x

\* Python's "x or 0.0": None and 0.0 are falsy, nan is truthy
OrZero(x) == IF IsNone(x) \/ x = Zero THEN Zero ELSE x

\* Python's min(a, b) / max(a, b): the first argument unless the second
\* compares strictly smaller / larger
PyMin(a, b) == IF FLt(b, a) THEN b ELSE a
PyMax(a, b) == IF FGt(b, a) THEN b ELSE a

\* Variant: no clamping
ClampNothing(x) == x

\* max(0.0, min(1.0, x))
Clamp01(x) == PyMax(Zero, PyMin(One, x))

\* ------------------------------------------------------------------------
\* src/src/strategy/reason_codes.py
\* ------------------------------------------------------------------------
NO_BID == "no_bid"
NO_ASK == "no_ask"
OUT_OF_RANGE == "out_of_range"
CROSSED_OR_LOCKED == "crossed_or_locked"
NAN_OR_INF == "nan_or_inf"
INVALID_MID == "invalid_mid"
\* validity_reason = None (Optional[str])
NoReason == "None"

SPREAD_TOO_WIDE == "spread_too_wide"
DEPTH_TOO_THIN == "depth_too_thin"
SNAPSHOT_STALE == "snapshot_stale"
INVALID_BOOK == "invalid_book"
ZERO_EXEC_PRICE == "zero_exec_price"

\* ------------------------------------------------------------------------
\* src/src/collector/orderbook.py
\* ------------------------------------------------------------------------

\* float(s) on the numerals the upstream API may send; ok = FALSE is the
\* ValueError float() raises on text that is no number.
\* The smallest positive float (2^-1074, written 5e-324).  The model keeps
\* the exact value of every other number; this one stands on a scaled grid:
\* a positive magnitude below every other modelled value whose half rounds
\* to 0.0.
MinSubnormal == F(1, 1000)

\* Variant: exact arithmetic, nothing rounds to 0.0
UnderflowExact(x) == x

\* Rounding of a float result at the bottom of the range (round half to
\* even): a magnitude of at most half the smallest positive float is 0.0,
\* a larger one below the smallest positive float is that float.
Underflow(x) ==
  IF ~IsFinite(x) \/ x = Zero \/ FGe(FAbs(x), MinSubnormal) THEN x
  ELSE IF FLe(FAbs(x), FDiv(MinSubnormal, F(2, 1))) THEN Zero
  ELSE IF FGt(x, Zero) THEN MinSubnormal ELSE FNeg(MinSubnormal)

ParseFloat(s) ==
  CASE s = "0"    -> [ok |-> TRUE, v |-> F(0, 1)]
    [] s = "0.4"  -> [ok |-> TRUE, v |-> F(2, 5)]
    [] s = "0.45" -> [ok |-> TRUE, v |-> F(9, 20)]
    [] s = "0.455" -> [ok |-> TRUE, v |-> F(91, 200)]
    [] s = "0.5"  -> [ok |-> TRUE, v |-> F(1, 2)]
    [] s = "0.6"  -> [ok |-> TRUE, v |-> F(3, 5)]
    [] s = "1"    -> [ok |-> TRUE, v |-> F(1, 1)]
    [] s = "1.2"  -> [ok |-> TRUE, v |-> F(6, 5)]
    [] s = "-0.1" -> [ok |-> TRUE, v |-> F(-1, 10)]
    [] s = "-0.2" -> [ok |-> TRUE, v |-> F(-1, 5)]
    [] s = "100"  -> [ok |-> TRUE, v |-> F(100, 1)]
    [] s = "5e-324" -> [ok |-> TRUE, v |-> MinSubnormal]
    [] s = "nan"  -> [ok |-> TRUE, v |-> NaN]
    [] s = "inf"  -> [ok |-> TRUE, v |-> PInf]
    [] s = "-inf" -> [ok |-> TRUE, v |-> NInf]
    [] OTHER      -> [ok |-> FALSE, v |-> NaN]

\* bid_depth / ask_depth loops of calculate_depth_within_1pct
RECURSIVE BidDepth(_, _)
BidDepth(bids, threshold_bid) ==
  IF bids = <<>> THEN Zero
  ELSE LET bid == Head(bids)
       IN  IF FGe(bid.price, threshold_bid)
             THEN FAdd(FMul(bid.price, bid.size), BidDepth(Tail(bids), threshold_bid))
             ELSE BidDepth(Tail(bids), threshold_bid)

RECURSIVE AskDepth(_, _)
AskDepth(asks, threshold_ask) ==
  IF asks = <<>> THEN Zero
  ELSE LET ask == Head(asks)
       IN  IF FLe(ask.price, threshold_ask)
             THEN FAdd(FMul(ask.price, ask.size), AskDepth(Tail(asks), threshold_ask))
             ELSE AskDepth(Tail(asks), threshold_ask)

\* Variant: levels exactly at a threshold are left out
calculate_depth_strictly_inside(bids, asks, mid_price) ==
  IF FLe(mid_price, Zero) THEN Zero
  ELSE FAdd(BidDepth(bids, FMul(mid_price, F(991, 1000))),
            AskDepth(asks, FMul(mid_price, F(1009, 1000))))

calculate_depth_within_1pct(bids, asks, mid_price) ==
  IF FLe(mid_price, Zero) THEN Zero
  ELSE FAdd(BidDepth(bids, FMul(mid_price, F(99, 100))),
            AskDepth(asks, FMul(mid_price, F(101, 100))))

\* Variant: the crossed-book test before the range test
classify_crossed_first(best_bid, best_ask) ==
  IF IsNone(best_bid) THEN NO_BID
  ELSE IF IsNone(best_ask) THEN NO_ASK
  ELSE IF ~IsFinite(best_bid) \/ ~IsFinite(best_ask) THEN NAN_OR_INF
  ELSE IF FLe(best_ask, best_bid) THEN CROSSED_OR_LOCKED
  ELSE IF FLt(best_bid, Zero) \/ FGt(best_ask, One) THEN OUT_OF_RANGE
  ELSE NoReason

\* Variant: a locked book (best_ask = best_bid) passes
classify_locked_passes(best_bid, best_ask) ==
  IF IsNone(best_bid) THEN NO_BID
  ELSE IF IsNone(best_ask) THEN NO_ASK
  ELSE IF ~IsFinite(best_bid) \/ ~IsFinite(best_ask) THEN NAN_OR_INF
  ELSE IF FLt(best_bid, Zero) \/ FGt(best_ask, One) THEN OUT_OF_RANGE
  ELSE IF FLt(best_ask, best_bid) THEN CROSSED_OR_LOCKED
  ELSE NoReason

classify_book_validity(best_bid, best_ask) ==
  IF IsNone(best_bid) THEN NO_BID
  ELSE IF IsNone(best_ask) THEN NO_ASK
  ELSE IF ~IsFinite(best_bid) \/ ~IsFinite(best_ask) THEN NAN_OR_INF
  ELSE IF FLt(best_bid, Zero) \/ FGt(best_ask, One) THEN OUT_OF_RANGE
  ELSE IF FLe(best_ask, best_bid) THEN CROSSED_OR_LOCKED
  ELSE NoReason

\* OrderBook (src/src/core/types.py)
OrderBook(market_id, token_id, bids, asks, best_bid, best_ask, mid_price, spread_bps, depth_within_1pct, validity_reason) ==
  [market_id |-> market_id, token_id |-> token_id, bids |-> bids, asks |-> asks,
   best_bid |-> best_bid, best_ask |-> best_ask, mid_price |-> mid_price,
   spread_bps |-> spread_bps, depth_within_1pct |-> depth_within_1pct,
   validity_reason |-> validity_reason]

\* market_id = "" as set by fetch_orderbook ("Will be set by caller")
NoMarket == 0

\* The loops that parse raw_book.bids / raw_book.asks.  A side that is not
\* iterable (None) or a level whose price or size float() rejects raises.
LevelsParse(side) ==
  side.present /\ \A i \in 1..Len(side.levels) :
     ParseFloat(side.levels[i].price).ok /\ ParseFloat(side.levels[i].size).ok

ParseLevels(side) ==
  [i \in 1..Len(side.levels) |->
     [price |-> ParseFloat(side.levels[i].price).v,
      size  |-> ParseFloat(side.levels[i].size).v]]

\* Variant: an invalid book keeps mid_price None instead of 0.0
NormalizeBookInvalidMidNone(token_id, bids, asks) ==
  LET best_bid == IF bids # <<>> THEN bids[1].price ELSE NoneV
      best_ask == IF asks # <<>> THEN asks[1].price ELSE NoneV
      validity_reason == classify_book_validity(best_bid, best_ask)
  IN  IF validity_reason # NoReason
        THEN OrderBook(NoMarket, token_id, bids, asks, best_bid, best_ask,
                       NoneV, NoneV, Zero, validity_reason)
        ELSE LET mid_price == Underflow(FDiv(FAdd(best_bid, best_ask), F(2, 1)))
             IN  IF FLe(mid_price, Zero) \/ ~IsFinite(mid_price)
                   THEN OrderBook(NoMarket, token_id, bids, asks, best_bid, best_ask,
                                  Zero, NoneV, Zero, INVALID_MID)
                   ELSE OrderBook(NoMarket, token_id, bids, asks, best_bid, best_ask,
                                  mid_price,
                                  FMul(FDiv(FSub(best_ask, best_bid), mid_price), F(10000, 1)),
                                  calculate_depth_within_1pct(bids, asks, mid_price),
                                  validity_reason)

\* Variant: the spread is taken relative to the best bid instead of the mid
NormalizeBookSpreadOverBid(token_id, bids, asks) ==
  LET best_bid == IF bids # <<>> THEN bids[1].price ELSE NoneV
      best_ask == IF asks # <<>> THEN asks[1].price ELSE NoneV
      validity_reason == classify_book_validity(best_bid, best_ask)
  IN  IF validity_reason # NoReason
        THEN OrderBook(NoMarket, token_id, bids, asks, best_bid, best_ask,
                       Zero, NoneV, Zero, validity_reason)
        ELSE LET mid_price == Underflow(FDiv(FAdd(best_bid, best_ask), F(2, 1)))
             IN  IF FLe(mid_price, Zero) \/ ~IsFinite(mid_price)
                   THEN OrderBook(NoMarket, token_id, bids, asks, best_bid, best_ask,
                                  Zero, NoneV, Zero, INVALID_MID)
                   ELSE OrderBook(NoMarket, token_id, bids, asks, best_bid, best_ask,
                                  mid_price,
                                  IF best_bid = Zero THEN PInf
                                  ELSE FMul(FDiv(FSub(best_ask, best_bid), best_bid), F(10000, 1)),
                                  calculate_depth_within_1pct(bids, asks, mid_price),
                                  validity_reason)

\* The derived fields of fetch_orderbook once bids and asks are parsed
NormalizeBook(token_id, bids, asks) ==
  LET best_bid == IF bids # <<>> THEN bids[1].price ELSE NoneV
      best_ask == IF asks # <<>> THEN asks[1].price ELSE NoneV
      validity_reason == classify_book_validity(best_bid, best_ask)
  IN  IF validity_reason # NoReason
        THEN OrderBook(NoMarket, token_id, bids, asks, best_bid, best_ask,
                       Zero, NoneV, Zero, validity_reason)
        ELSE LET mid_price == Underflow(FDiv(FAdd(best_bid, best_ask), F(2, 1)))
             IN  IF FLe(mid_price, Zero) \/ ~IsFinite(mid_price)
                   THEN OrderBook(NoMarket, token_id, bids, asks, best_bid, best_ask,
                                  Zero, NoneV, Zero, INVALID_MID)
                   ELSE OrderBook(NoMarket, token_id, bids, asks, best_bid, best_ask,
                                  mid_price,
                                  FMul(FDiv(FSub(best_ask, best_bid), mid_price), F(10000, 1)),
                                  calculate_depth_within_1pct(bids, asks, mid_price),
                                  validity_reason)

\* Placeholder book of a result that carries none
NoBook == OrderBook(NoMarket, 0, <<>>, <<>>, NoneV, NoneV, NoneV, NoneV, NoneV, NoReason)

\* fetch_orderbook(token_id): raw.status is what clob_client.get_order_book
\* did ("error": it raised, "empty": a falsy book, "book": a book).
\* returned = FALSE is the return value None (the except clause catches every
\* Exception raised inside); caught names the reason of a None.
fetch_orderbook(token_id, raw) ==
  IF raw.status = "error"
    THEN [returned |-> FALSE, caught |-> "api_error", book |-> NoBook]
  ELSE IF raw.status = "empty"
    THEN [returned |-> FALSE, caught |-> "no_book", book |-> NoBook]
  ELSE IF ~LevelsParse(raw.bids) \/ ~LevelsParse(raw.asks)
    THEN [returned |-> FALSE, caught |-> "parse_error", book |-> NoBook]
  ELSE [returned |-> TRUE, caught |-> "none",
        book |-> NormalizeBook(token_id, ParseLevels(raw.bids), ParseLevels(raw.asks))]

\* ------------------------------------------------------------------------
\* State
\* ------------------------------------------------------------------------
VARIABLES
  cfg,        \* SignalsConfig held by the estimator, the filters, the generator
  ema_state,  \* FairValueEstimator._ema_state: token_id -> ema (NoneV: no key)
  obs,        \* per token, the mids fair_value_prob has passed to _update_ema
  op,         \* the operation that ran last
  cls,        \* arguments and result of the last classify_book_validity call
  fetched,    \* arguments and result of the last fetch_orderbook call
  fv,         \* arguments and result of the last fair_value_prob call
  gen,        \* arguments and outcome of the last generate_signals call
  flt,        \* arguments and result of the last SignalFilters.apply call
  dep,        \* arguments and result of the last calculate_depth_within_1pct call
  db,         \* the SQLite database: its tables and the rows of cycles, signals, orderbook_summaries
  runner,     \* the BotRunner: position in run(), running, error_count, the cycle's locals
  shutdown    \* whether _handle_shutdown has run, and where run() was when it first did

vars == <<cfg, ema_state, obs, op, cls, fetched, fv, gen, flt, dep, db, runner, shutdown>>

\* ------------------------------------------------------------------------
\* SignalsConfig: ema_alpha in (0,1], max_spread_bps, min_depth_usdc,
\* max_snapshot_age_s, top_n_to_log >= 0
\* ------------------------------------------------------------------------
SignalsConfig(ema_alpha, max_spread_bps, min_depth_usdc, max_snapshot_age_s, top_n_to_log) ==
  [ema_alpha |-> ema_alpha, max_spread_bps |-> max_spread_bps,
   min_depth_usdc |-> min_depth_usdc, max_snapshot_age_s |-> max_snapshot_age_s,
   top_n_to_log |-> top_n_to_log]

Configs ==
  { SignalsConfig(F(1, 5), F(500, 1), F(50, 1), F(10, 1), 1),
    SignalsConfig(F(1, 1), F(500, 1), F(50, 1), F(10, 1), 0) }

\* ------------------------------------------------------------------------
\* src/src/strategy/fair_value.py
\* ------------------------------------------------------------------------
Half == F(1, 2)

\* Variant: the weights of the new mid and of the previous EMA exchanged
update_ema_swapped(ema, token_id, mid_price) ==
  IF FLe(mid_price, Zero)
    THEN [ret |-> IF ~IsNone(ema[token_id]) THEN ema[token_id] ELSE Half,
          ema_state |-> ema]
    ELSE LET prev == ema[token_id]
             alpha == cfg.ema_alpha
             new == IF IsNone(prev) THEN mid_price
                    ELSE FAdd(FMul(FSub(One, alpha), mid_price), FMul(alpha, prev))
         IN  [ret |-> new, ema_state |-> [ema EXCEPT ![token_id] = new]]

\* Variant: the previous EMA is carried over with weight 1
update_ema_unnormalised(ema, token_id, mid_price) ==
  IF FLe(mid_price, Zero)
    THEN [ret |-> IF ~IsNone(ema[token_id]) THEN ema[token_id] ELSE Half,
          ema_state |-> ema]
    ELSE LET prev == ema[token_id]
             alpha == cfg.ema_alpha
             new == IF IsNone(prev) THEN mid_price
                    ELSE FAdd(FMul(alpha, mid_price), prev)
         IN  [ret |-> new, ema_state |-> [ema EXCEPT ![token_id] = new]]

\* Variant: one EMA slot shared by every token
update_ema_shared(ema, token_id, mid_price) ==
  IF FLe(mid_price, Zero)
    THEN [ret |-> IF ~IsNone(ema[token_id]) THEN ema[token_id] ELSE Half,
          ema_state |-> ema]
    ELSE LET prev == ema[token_id]
             alpha == cfg.ema_alpha
             new == IF IsNone(prev) THEN mid_price
                    ELSE FAdd(FMul(alpha, mid_price), FMul(FSub(One, alpha), prev))
         IN  [ret |-> new, ema_state |-> [t \in DOMAIN ema |-> new]]

\* FairValueEstimator._update_ema: [ret, ema_state]
_update_ema(ema, token_id, mid_price) ==
  IF FLe(mid_price, Zero)
    THEN [ret |-> IF ~IsNone(ema[token_id]) THEN ema[token_id] ELSE Half,
          ema_state |-> ema]
    ELSE LET prev == ema[token_id]
             alpha == cfg.ema_alpha
             new == IF IsNone(prev) THEN mid_price
                    ELSE FAdd(FMul(alpha, mid_price), FMul(FSub(One, alpha), prev))
         IN  [ret |-> new, ema_state |-> [ema EXCEPT ![token_id] = new]]

\* Variant: the 0.5 fallback is stored as the token's EMA
fair_value_prob_stores_fallback(ema, book) ==
  LET mid == OrZero(book.mid_price)
  IN  IF FGt(mid, Zero)
        THEN LET r == _update_ema(ema, book.token_id, mid)
             IN  [ret |-> Clamp01(r.ret), ema_state |-> r.ema_state]
        ELSE [ret |-> Half, ema_state |-> [ema EXCEPT ![book.token_id] = Half]]

\* FairValueEstimator.fair_value_prob: [ret, ema_state]
fair_value_prob(ema, book) ==
  LET mid == OrZero(book.mid_price)
  IN  IF FGt(mid, Zero)
        THEN LET r == _update_ema(ema, book.token_id, mid)
             IN  [ret |-> Clamp01(r.ret), ema_state |-> r.ema_state]
        ELSE [ret |-> Half, ema_state |-> ema]

\* The mids that fair_value_prob hands to _update_ema for this book
UpdateArgs(book) ==
  LET mid == OrZero(book.mid_price)
  IN  IF FGt(mid, Zero) THEN <<mid>> ELSE <<>>

\* ------------------------------------------------------------------------
\* src/src/strategy/filters.py
\* ------------------------------------------------------------------------
FilterResult(accepted, reason) == [accepted |-> accepted, reason |-> reason]

_spread_filter(book) ==
  LET spread_bps == IF ~IsNone(book.spread_bps) THEN book.spread_bps ELSE F(99999, 1)
  IN  IF FGt(spread_bps, cfg.max_spread_bps)
        THEN [ok |-> FALSE, reason |-> SPREAD_TOO_WIDE]
        ELSE [ok |-> TRUE, reason |-> NoReason]

_depth_filter(book) ==
  LET depth_usdc == OrZero(book.depth_within_1pct)
  IN  IF FLt(depth_usdc, cfg.min_depth_usdc)
        THEN [ok |-> FALSE, reason |-> DEPTH_TOO_THIN]
        ELSE [ok |-> TRUE, reason |-> NoReason]

\* Variant: an age equal to max_snapshot_age_s is rejected
staleness_filter_rejects_at_limit(snapshot_age_s) ==
  IF IsNone(snapshot_age_s) THEN [ok |-> TRUE, reason |-> NoReason]
  ELSE IF FGe(snapshot_age_s, cfg.max_snapshot_age_s)
    THEN [ok |-> FALSE, reason |-> SNAPSHOT_STALE]
  ELSE [ok |-> TRUE, reason |-> NoReason]

_staleness_filter(snapshot_age_s) ==
  IF IsNone(snapshot_age_s) THEN [ok |-> TRUE, reason |-> NoReason]
  ELSE IF FGt(snapshot_age_s, cfg.max_snapshot_age_s)
    THEN [ok |-> FALSE, reason |-> SNAPSHOT_STALE]
  ELSE [ok |-> TRUE, reason |-> NoReason]

\* Variant: the depth rule is evaluated before the spread rule
apply_depth_first(book, snapshot_age_s) ==
  IF ~_depth_filter(book).ok THEN FilterResult(FALSE, _depth_filter(book).reason)
  ELSE IF ~_spread_filter(book).ok THEN FilterResult(FALSE, _spread_filter(book).reason)
  ELSE IF ~_staleness_filter(snapshot_age_s).ok
    THEN FilterResult(FALSE, _staleness_filter(snapshot_age_s).reason)
  ELSE FilterResult(TRUE, NoReason)

\* SignalFilters.apply
apply(book, snapshot_age_s) ==
  IF ~_spread_filter(book).ok THEN FilterResult(FALSE, _spread_filter(book).reason)
  ELSE IF ~_depth_filter(book).ok THEN FilterResult(FALSE, _depth_filter(book).reason)
  ELSE IF ~_staleness_filter(snapshot_age_s).ok
    THEN FilterResult(FALSE, _staleness_filter(snapshot_age_s).reason)
  ELSE FilterResult(TRUE, NoReason)

\* ------------------------------------------------------------------------
\* src/src/strategy/signal_generation.py
\* ------------------------------------------------------------------------
Signal(cycle_id, market_id, token_id, side, fair_value, p_implied_mid, p_implied_exec_buy, p_implied_exec_sell, edge_bps, filter_reason, spread_bps, depth_within_1pct) ==
  [cycle_id |-> cycle_id, market_id |-> market_id, token_id |-> token_id,
   side |-> side, fair_value_prob |-> fair_value, p_implied_mid |-> p_implied_mid,
   p_implied_exec_buy |-> p_implied_exec_buy,
   p_implied_exec_sell |-> p_implied_exec_sell, edge_bps |-> edge_bps,
   filter_reason |-> filter_reason, spread_bps |-> spread_bps,
   depth_within_1pct |-> depth_within_1pct]

\* SignalGenerator._implied_probs
\* Variant: the buy side executes at the bid and the sell side at the ask
implied_probs_sides_swapped(book) ==
  [p_mid       |-> Clamp01(OrZero(book.mid_price)),
   p_exec_buy  |-> Clamp01(OrZero(book.best_bid)),
   p_exec_sell |-> Clamp01(OrZero(book.best_ask))]

_implied_probs(book) ==
  [p_mid       |-> Clamp01(OrZero(book.mid_price)),
   p_exec_buy  |-> Clamp01(OrZero(book.best_ask)),
   p_exec_sell |-> Clamp01(OrZero(book.best_bid))]

\* Variant: the snapshots are processed in the order the caller passed them
SortBooksKeepsInputOrder(books) == books

\* sorted(books, key=lambda b: (b.market_id, b.token_id)): stable
KeyLe(a, b) ==
  a.market_id < b.market_id \/ (a.market_id = b.market_id /\ a.token_id <= b.token_id)

RECURSIVE InsertBook(_, _)
InsertBook(sorted, b) ==
  IF sorted = <<>> THEN <<b>>
  ELSE IF KeyLe(sorted[Len(sorted)], b) THEN Append(sorted, b)
  ELSE Append(InsertBook(SubSeq(sorted, 1, Len(sorted) - 1), b), sorted[Len(sorted)])

RECURSIVE SortBooks(_)
SortBooks(books) ==
  IF books = <<>> THEN <<>>
  ELSE InsertBook(SortBooks(SubSeq(books, 1, Len(books) - 1)), books[Len(books)])

\* signals.sort(key=lambda s: abs(s.edge_bps), reverse=True): stable
RECURSIVE InsertSignal(_, _)
InsertSignal(sorted, s) ==
  IF sorted = <<>> THEN <<s>>
  ELSE IF FGe(FAbs(sorted[Len(sorted)].edge_bps), FAbs(s.edge_bps)) THEN Append(sorted, s)
  ELSE Append(InsertSignal(SubSeq(sorted, 1, Len(sorted) - 1), s), sorted[Len(sorted)])

RECURSIVE SortSignals(_)
SortSignals(signals) ==
  IF signals = <<>> THEN <<>>
  ELSE InsertSignal(SortSignals(SubSeq(signals, 1, Len(signals) - 1)), signals[Len(signals)])

\* Variant: the test of the BUY block reads p_exec_buy
BuyGuardOnExecBuy(p_exec_buy) ==
  IF FGt(p_exec_buy, Zero) /\ IsFinite(p_exec_buy) THEN "True" ELSE "False"

\* Line 89, the test of the BUY block: "p-exec_buy > 0 and
\* math.isfinite(p_exec_buy)".  Neither p nor exec_buy is a name of the
\* function or the module, so evaluating the test raises NameError.
BuyGuard(p_exec_buy) == "NameError"

\* Line 108, the test of the SELL block
SellGuard(p_exec_sell) == FGt(p_exec_sell, Zero) /\ IsFinite(p_exec_sell)

\* The frame of generate_signals before the loop: no loop variable is bound
Frame0(ema) ==
  [ema_state |-> ema, signals |-> <<>>, exc |-> "none", bound |-> FALSE,
   book |-> NoBook, p_mid |-> Zero, p_exec_buy |-> Zero, p_exec_sell |-> Zero,
   fv |-> Zero, edge_buy_bps |-> Zero, edge_sell_bps |-> Zero,
   filt |-> FilterResult(TRUE, NoReason), prev |-> NoneV, fv_calls |-> <<>>]

\* One iteration of "for book in books_sorted" (lines 75-105)
LoopBody(fr, cycle_id, book) ==
  LET pr == _implied_probs(book)
      fvr == fair_value_prob(fr.ema_state, book)
      edge_buy_bps == FMul(FSub(fvr.ret, pr.p_exec_buy), F(10000, 1))
      edge_sell_bps == FMul(FSub(pr.p_exec_sell, fvr.ret), F(10000, 1))
      filt == apply(book, NoneV)
      guard == BuyGuard(pr.p_exec_buy)
      buy == Signal(cycle_id, book.market_id, book.token_id, "buy", fvr.ret,
                    pr.p_mid, pr.p_exec_buy, pr.p_exec_sell, edge_buy_bps,
                    filt.reason, OrZero(book.spread_bps), book.depth_within_1pct)
  IN  [ema_state |-> fvr.ema_state,
       signals |-> IF guard = "True" THEN Append(fr.signals, buy) ELSE fr.signals,
       exc |-> IF guard \in {"True", "False"} THEN "none" ELSE guard,
       bound |-> TRUE, book |-> book, p_mid |-> pr.p_mid,
       p_exec_buy |-> pr.p_exec_buy, p_exec_sell |-> pr.p_exec_sell,
       fv |-> fvr.ret, edge_buy_bps |-> edge_buy_bps, edge_sell_bps |-> edge_sell_bps,
       filt |-> filt, prev |-> fr.ema_state[book.token_id],
       fv_calls |-> Append(fr.fv_calls, book)]

\* The loop: an exception ends it
RECURSIVE Loop(_, _, _)
Loop(fr, cycle_id, books_sorted) ==
  IF books_sorted = <<>> \/ fr.exc # "none" THEN fr
  ELSE Loop(LoopBody(fr, cycle_id, Head(books_sorted)), cycle_id, Tail(books_sorted))

\* The SELL block after the loop (lines 107-124): it reads the loop's
\* variables, which are unbound when the loop body never ran.
SellBlock(fr, cycle_id) ==
  IF fr.exc # "none" THEN fr
  ELSE IF ~fr.bound THEN [fr EXCEPT !.exc = "UnboundLocalError"]
  ELSE IF SellGuard(fr.p_exec_sell)
    THEN [fr EXCEPT !.signals =
            Append(@, Signal(cycle_id, fr.book.market_id, fr.book.token_id, "sell",
                             fr.fv, fr.p_mid, fr.p_exec_buy, fr.p_exec_sell,
                             fr.edge_sell_bps, fr.filt.reason,
                             OrZero(fr.book.spread_bps), fr.book.depth_within_1pct))]
  ELSE fr

\* Lines 126-132: rank and truncate
RankAndCut(signals) ==
  LET ranked == SortSignals(signals)
  IN  IF Len(ranked) > cfg.top_n_to_log THEN SubSeq(ranked, 1, cfg.top_n_to_log)
      ELSE ranked

\* The loop variables of the frame when the call ended (bound: the loop body
\* ran), with prev the EMA the estimator held for the book's token before
\* the call to fair_value_prob
Locals(fr) ==
  [bound |-> fr.bound, book |-> fr.book, fv |-> fr.fv, prev |-> fr.prev,
   edge_buy_bps |-> fr.edge_buy_bps, edge_sell_bps |-> fr.edge_sell_bps]

\* SignalGenerator.generate_signals: exc is the exception that left the call
\* ("none": it returned ret), signals the candidate list when the call ended
\* (before ranking and truncation), fv_calls the books it passed to
\* fair_value_prob.
generate_signals(ema, cycle_id, books) ==
  LET fr == SellBlock(Loop(Frame0(ema), cycle_id, SortBooks(books)), cycle_id)
  IN  [exc |-> fr.exc,
       ret |-> IF fr.exc = "none" THEN RankAndCut(fr.signals) ELSE <<>>,
       signals |-> fr.signals,
       locals |-> Locals(fr),
       ema_state |-> fr.ema_state,
       fv_calls |-> fr.fv_calls]

\* ------------------------------------------------------------------------
\* Inputs
\* ------------------------------------------------------------------------

\* Optional[float] arguments of a direct classify_book_validity call
ClsValues ==
  { NoneV, NaN, PInf, NInf, F(-1, 5), F(-1, 10), Zero, F(2, 5), F(1, 2),
    F(3, 5), One, F(6, 5) }

\* Raw levels as the upstream API sends them (text)
RawLevel(price, size) == [price |-> price, size |-> size]

PriceNumerals ==
  { "0", "5e-324", "0.4", "0.45", "0.455", "0.5", "0.6", "1", "1.2", "-0.1", "-0.2",
    "nan", "inf", "-inf", "abc" }

BestLevels ==
  { RawLevel(p, "100") : p \in PriceNumerals }
    \cup { RawLevel("0.5", "abc"), RawLevel("0.45", "0") }

DeepLevels == { RawLevel("0.4", "100"), RawLevel("0.6", "100"), RawLevel("abc", "100") }

\* Ladders of at most MaxLevels levels
RawLadders ==
  UNION { { l \in [1..n -> BestLevels \cup DeepLevels] :
              \A i \in 1..n : IF i = 1 THEN l[i] \in BestLevels ELSE l[i] \in DeepLevels }
          : n \in 0..MaxLevels }

\* raw_book.bids / raw_book.asks: a list of levels, or None
RawSides ==
  { [present |-> TRUE, levels |-> l] : l \in RawLadders }
    \cup { [present |-> FALSE, levels |-> <<>>] }

NoSide == [present |-> FALSE, levels |-> <<>>]

\* What clob_client.get_order_book(token_id) does
RawBooks ==
  { [status |-> "book", bids |-> b, asks |-> a] : b \in RawSides, a \in RawSides }
    \cup { [status |-> "empty", bids |-> NoSide, asks |-> NoSide],
           [status |-> "error", bids |-> NoSide, asks |-> NoSide] }

\* mid_price of the snapshot handed to a direct fair_value_prob call
MidPool == { NoneV, NaN, Zero, F(-1, 10), F(3, 5), F(6, 5) }

\* book.market_id = market.id (fetch_orderbooks_for_markets)
WithMarket(book, market_id) == [book EXCEPT !.market_id = market_id]

Level(price, size) == [price |-> price, size |-> size]

\* Snapshots handed to generate_signals, all normalizer output: a wide valid
\* book, a narrow valid book, a book without bids, and a crossed book of the
\* same market and token as the narrow one (a second snapshot of that token).
BookSeq ==
  << WithMarket(NormalizeBook(1, <<Level(F(2, 5), F(100, 1))>>, <<Level(F(3, 5), F(100, 1))>>), 2),
    WithMarket(NormalizeBook(2, <<Level(F(9, 20), F(100, 1))>>, <<Level(F(91, 200), F(100, 1))>>), 1),
    WithMarket(NormalizeBook(1, <<>>, <<Level(F(1, 2), F(100, 1))>>), 1),
    WithMarket(NormalizeBook(2, <<Level(F(3, 5), F(100, 1))>>, <<Level(F(1, 2), F(100, 1))>>), 1) >>

BookPool == { BookSeq[i] : i \in 1..Len(BookSeq) }

\* books: List[OrderBook], the snapshots of one cycle in the order the
\* collector returned them (not the order generate_signals sorts them into)
RECURSIVE BooksAt(_)
BooksAt(S) ==
  IF S = {} THEN <<>>
  ELSE LET i == CHOOSE j \in S : \A k \in S : j <= k
       IN  <<BookSeq[i]>> \o BooksAt(S \ {i})

BookLists ==
  { BooksAt(S) : S \in { T \in SUBSET (1..Len(BookSeq)) : Cardinality(T) <= MaxBooks } }

CycleIds == {1}

\* Levels and mids handed to a direct calculate_depth_within_1pct call: prices
\* below, at and above the two thresholds of mid 0.5, a level of size 0, and
\* a level with a negative price
DepthLevels ==
  { Level(F(2, 5), F(100, 1)), Level(F(99, 200), F(100, 1)), Level(F(101, 200), F(10, 1)),
    Level(F(1, 2), Zero), Level(F(-1, 10), F(100, 1)) }

\* Ladders of at most MaxLevels levels
DepthLadders == UNION { [1..n -> DepthLevels] : n \in 0..MaxLevels }

DepthMids == { Zero, F(-1, 10), F(1, 2) }

\* spread_bps, depth_within_1pct of the snapshot and the snapshot_age_s handed
\* to a direct SignalFilters.apply call: None, and finite values below, at
\* and above the configured thresholds
SpreadPool == { NoneV, F(100, 1), F(500, 1), F(5001, 10), F(600, 1), F(99999, 1) }
DepthPool == { NoneV, Zero, F(4999, 100), F(50, 1), F(100, 1) }
AgePool == { NoneV, Zero, F(10, 1), F(101, 10), F(60, 1) }

\* ------------------------------------------------------------------------
\* Operations
\* ------------------------------------------------------------------------
Cls0 == [best_bid |-> NoneV, best_ask |-> NoneV, reason |-> NoReason]
Fetched0 ==
  [token_id |-> 0, raw |-> [status |-> "error", bids |-> NoSide, asks |-> NoSide],
   result |-> [returned |-> FALSE, caught |-> "none", book |-> NoBook]]
Fv0 == [token_id |-> 0, mid_price |-> NoneV, ret |-> NoneV]
Gen0 ==
  [cycle_id |-> 0, books |-> <<>>, exc |-> "none", ret |-> <<>>, signals |-> <<>>,
   locals |-> Locals(Frame0(<<>>))]
Flt0 == [book |-> NoBook, snapshot_age_s |-> NoneV, result |-> FilterResult(TRUE, NoReason)]
Dep0 == [bids |-> <<>>, asks |-> <<>>, mid_price |-> NoneV, ret |-> NoneV]

\* No database file yet
Db0 == [initialized |-> FALSE, tables |-> {}, cycles |-> <<>>, signals |-> <<>>,
        orderbook_summaries |-> <<>>]

\* No BotRunner constructed yet
Runner0 ==
  [pc |-> "new", running |-> FALSE, error_count |-> 0, max_error_burst |-> 0,
   cycle_id |-> 0, orderbooks |-> <<>>, exc |-> "none"]

Shutdown0 == [handled |-> FALSE, at |-> "none", cycle_id |-> 0]

RECURSIVE TotalObs(_, _)
TotalObs(o, n) == IF n = 0 THEN 0 ELSE Len(o[n]) + TotalObs(o, n - 1)

RECURSIVE ExtendObs(_, _)
ExtendObs(o, calls) ==
  IF calls = <<>> THEN o
  ELSE ExtendObs([o EXCEPT ![Head(calls).token_id] = @ \o UpdateArgs(Head(calls))],
                 Tail(calls))

Init ==
  /\ cfg \in Configs
  /\ ema_state = [t \in Tokens |-> NoneV]
  /\ obs = [t \in Tokens |-> <<>>]
  /\ op = "init"
  /\ cls = Cls0
  /\ fetched = Fetched0
  /\ fv = Fv0
  /\ gen = Gen0
  /\ flt = Flt0
  /\ dep = Dep0
  /\ db = Db0
  /\ runner = Runner0
  /\ shutdown = Shutdown0

\* classify_book_validity(best_bid, best_ask).  The function is pure, so a
\* behaviour of the collector is one call on one input.
ClassifyCall ==
  /\ op = "init"
  /\ \E best_bid \in ClsValues, best_ask \in ClsValues :
    /\ op' = "classify_book_validity"
    /\ cls' = [best_bid |-> best_bid, best_ask |-> best_ask,
               reason |-> classify_book_validity(best_bid, best_ask)]
    /\ fetched' = Fetched0 /\ fv' = Fv0 /\ gen' = Gen0 /\ flt' = Flt0 /\ dep' = Dep0
    /\ UNCHANGED <<cfg, ema_state, obs, db, runner, shutdown>>

\* fetch_orderbook(token_id): it reads and writes no state of the process,
\* so a behaviour of the collector is one call on one input.
FetchCall ==
  /\ op = "init"
  /\ \E token_id \in Tokens, raw \in RawBooks :
    /\ op' = "fetch_orderbook"
    /\ fetched' = [token_id |-> token_id, raw |-> raw,
                   result |-> fetch_orderbook(token_id, raw)]
    /\ cls' = Cls0 /\ fv' = Fv0 /\ gen' = Gen0 /\ flt' = Flt0 /\ dep' = Dep0
    /\ UNCHANGED <<cfg, ema_state, obs, db, runner, shutdown>>

\* FairValueEstimator.fair_value_prob(book)
FairValueProbCall ==
  \E token_id \in Tokens, mid_price \in MidPool :
    \E book \in {OrderBook(1, token_id, <<>>, <<>>, NoneV, NoneV, mid_price,
                              NoneV, NoneV, NoReason)} :
    \E r \in {fair_value_prob(ema_state, book)} :
    \E o \in {ExtendObs(obs, <<book>>)} :
        /\ TotalObs(o, NumTokens) <= MaxObs
        /\ op' = "fair_value_prob"
        /\ fv' = [token_id |-> token_id, mid_price |-> mid_price, ret |-> r.ret]
        /\ ema_state' = r.ema_state
        /\ obs' = o
        /\ cls' = Cls0 /\ fetched' = Fetched0 /\ gen' = Gen0 /\ flt' = Flt0 /\ dep' = Dep0
        /\ UNCHANGED <<cfg, db, runner, shutdown>>

\* SignalGenerator.generate_signals(cycle_id, books)
GenerateSignalsCall ==
  \E cycle_id \in CycleIds, books \in BookLists :
    \E r \in {generate_signals(ema_state, cycle_id, books)} :
    \E o \in {ExtendObs(obs, r.fv_calls)} :
        /\ TotalObs(o, NumTokens) <= MaxObs
        /\ op' = "generate_signals"
        /\ gen' = [cycle_id |-> cycle_id, books |-> books, exc |-> r.exc,
                   ret |-> r.ret, signals |-> r.signals, locals |-> r.locals]
        /\ ema_state' = r.ema_state
        /\ obs' = o
        /\ cls' = Cls0 /\ fetched' = Fetched0 /\ fv' = Fv0 /\ flt' = Flt0 /\ dep' = Dep0
        /\ UNCHANGED <<cfg, db, runner, shutdown>>

\* The strategy core: fair value estimator and signal generator
Next == FairValueProbCall \/ GenerateSignalsCall
Spec == Init /\ [][Next]_vars

\* SignalFilters.apply(book, snapshot_age_s): it reads cfg and writes nothing,
\* so a behaviour of the filter chain is one call on one input.
ApplyCall ==
  /\ op = "init"
  /\ \E spread_bps \in SpreadPool, depth_within_1pct \in DepthPool, snapshot_age_s \in AgePool :
      \E book \in {OrderBook(1, 1, <<>>, <<>>, NoneV, NoneV, NoneV, spread_bps,
                              depth_within_1pct, NoReason)} :
        /\ op' = "apply"
        /\ flt' = [book |-> book, snapshot_age_s |-> snapshot_age_s,
                   result |-> apply(book, snapshot_age_s)]
        /\ cls' = Cls0 /\ fetched' = Fetched0 /\ fv' = Fv0 /\ gen' = Gen0 /\ dep' = Dep0
        /\ UNCHANGED <<cfg, ema_state, obs, db, runner, shutdown>>

\* calculate_depth_within_1pct(bids, asks, mid_price): pure, so a behaviour is
\* one call on one input.
DepthCall ==
  /\ op = "init"
  /\ \E bids \in DepthLadders, asks \in DepthLadders, mid_price \in DepthMids :
        /\ op' = "calculate_depth_within_1pct"
        /\ dep' = [bids |-> bids, asks |-> asks, mid_price |-> mid_price,
                   ret |-> calculate_depth_within_1pct(bids, asks, mid_price)]
        /\ cls' = Cls0 /\ fetched' = Fetched0 /\ fv' = Fv0 /\ gen' = Gen0 /\ flt' = Flt0
        /\ UNCHANGED <<cfg, ema_state, obs, db, runner, shutdown>>

\* The collector: validity classifier, depth calculator and book normalizer
NextBook == ClassifyCall \/ FetchCall \/ DepthCall
SpecBook == Init /\ [][NextBook]_vars

\* The filter chain
NextFilter == ApplyCall
SpecFilter == Init /\ [][NextFilter]_vars

\* ------------------------------------------------------------------------
\* Ledger (schema.py, store.py)
\* ------------------------------------------------------------------------
\* initialize_database: CREATE TABLE IF NOT EXISTS for each of these
initialize_database(d) ==
  [d EXCEPT !.initialized = TRUE,
            !.tables = @ \cup {"cycles", "account_states", "estimates", "decisions",
                               "paper_fills"}]

\* An INSERT into a table: sqlite3.OperationalError when the table is missing
InsertInto(d, table) == IF table \in d.tables THEN "none" ELSE "OperationalError"

\* Store.create_cycle: [exc, db, ret]; ret is cursor.lastrowid
create_cycle(d, status) ==
  IF InsertInto(d, "cycles") # "none" THEN [exc |-> InsertInto(d, "cycles"), db |-> d, ret |-> 0]
  ELSE [exc |-> "none",
        db |-> [d EXCEPT !.cycles = Append(@, [status |-> status, error_message |-> "None",
                                               execution_time_ms |-> "None"])],
        ret |-> Len(d.cycles) + 1]

\* Store.update_cycle(cycle_id, status=..., error_message=... / execution_time_ms=...)
update_cycle(d, cycle_id, status) ==
  [d EXCEPT !.cycles[cycle_id] =
     IF status = "error" THEN [@ EXCEPT !.status = status, !.error_message = "str(e)"]
     ELSE [@ EXCEPT !.status = status, !.execution_time_ms = "set"]]

\* Store.record_orderbook_summary: [exc, db]
record_orderbook_summary(d, cycle_id, book) ==
  IF InsertInto(d, "orderbook_summaries") # "none"
    THEN [exc |-> InsertInto(d, "orderbook_summaries"), db |-> d]
    ELSE [exc |-> "none",
          db |-> [d EXCEPT !.orderbook_summaries =
                    Append(@, [cycle_id |-> cycle_id, market_id |-> book.market_id,
                               token_id |-> book.token_id, best_bid |-> book.best_bid,
                               best_ask |-> book.best_ask, mid_price |-> book.mid_price,
                               spread_bps |-> book.spread_bps,
                               depth_within_1pct |-> book.depth_within_1pct,
                               validity_reason |-> book.validity_reason])]]

\* Store.record_signal as run_cycle calls it (lines 133-174): [exc, db]
record_signal(d, sig) ==
  IF InsertInto(d, "signals") # "none" THEN [exc |-> InsertInto(d, "signals"), db |-> d]
  ELSE [exc |-> "none",
        db |-> [d EXCEPT !.signals =
                  Append(@, [cycle_id |-> sig.cycle_id, market_id |-> sig.market_id,
                             token_id |-> sig.token_id, side |-> sig.side,
                             p_implied_mid |-> sig.p_implied_mid,
                             p_implied_exec |-> IF sig.side = "buy" THEN sig.p_implied_exec_buy
                                                ELSE sig.p_implied_exec_sell,
                             p_fair |-> sig.fair_value_prob, edge_bps |-> sig.edge_bps,
                             passed_filters |-> sig.filter_reason = NoReason])]]

\* "for sig in signals" (lines 132-174): the first exception ends it
RECURSIVE RecordSignals(_, _)
RecordSignals(d, signals) ==
  IF signals = <<>> THEN [exc |-> "none", db |-> d]
  ELSE LET r == record_signal(d, Head(signals))
       IN  IF r.exc # "none" THEN r ELSE RecordSignals(r.db, Tail(signals))

\* "for book in orderbooks" (lines 202-213): the first exception ends it
RECURSIVE RecordSummaries(_, _, _)
RecordSummaries(d, cycle_id, orderbooks) ==
  IF orderbooks = <<>> THEN [exc |-> "none", db |-> d]
  ELSE LET r == record_orderbook_summary(d, cycle_id, Head(orderbooks))
       IN  IF r.exc # "none" THEN r ELSE RecordSummaries(r.db, cycle_id, Tail(orderbooks))

\* ------------------------------------------------------------------------
\* Runner (runner.py)
\* ------------------------------------------------------------------------
\* Largest risk.max_error_burst tried
MaxBurst == 2

\* What discover_markets and fetch_orderbooks_for_markets hand to a cycle:
\* the discovery request raises, or the fetch returns a list of snapshots
DiscoveryOutcomes == {"raises", "ok"}
FetchedLists == { books \in BookLists : Len(books) <= 1 }

\* Lines 202-229: the summaries are recorded and the cycle row is updated
\* to 'success'
AfterSignalsRecorded(g, s, b, cycle_id) ==
  IF s.exc # "none"
    THEN [exc |-> s.exc, db |-> s.db, ema_state |-> g.ema_state, fv_calls |-> g.fv_calls]
  ELSE IF b.exc # "none"
    THEN [exc |-> b.exc, db |-> b.db, ema_state |-> g.ema_state, fv_calls |-> g.fv_calls]
  ELSE [exc |-> "none", db |-> update_cycle(b.db, cycle_id, "success"),
        ema_state |-> g.ema_state, fv_calls |-> g.fv_calls]

\* Lines 126-229: what follows generate_signals, whose outcome is g
AfterSignals(d, g, s, cycle_id, orderbooks) ==
  IF g.exc # "none"
    THEN [exc |-> g.exc, db |-> d, ema_state |-> g.ema_state, fv_calls |-> g.fv_calls]
  ELSE AfterSignalsRecorded(g, s, RecordSummaries(s.db, cycle_id, orderbooks), cycle_id)

\* Lines 122-229, given the outcome g of generate_signals
FromSignals(d, g, cycle_id, orderbooks) ==
  AfterSignals(d, g, RecordSignals(d, g.ret), cycle_id, orderbooks)

\* The try block of run_cycle (lines 91-234) up to the point where it ends
\* or raises: [exc, db, ema_state, fv_calls]
TryBlock(d, ema, cycle_id, discovery, orderbooks) ==
  IF discovery = "raises"
    THEN [exc |-> "RuntimeError", db |-> d, ema_state |-> ema, fv_calls |-> <<>>]
  ELSE FromSignals(d, generate_signals(ema, cycle_id, orderbooks), cycle_id, orderbooks)

\* Variant: the runner halts only when the count exceeds the limit
except_clause_halts_above_limit(r) ==
  LET error_count == r.error_count + 1
  IN  [r EXCEPT !.error_count = error_count,
                !.running = IF error_count > r.max_error_burst THEN FALSE ELSE @,
                !.exc = "none", !.pc = "if_running"]

\* Lines 244-249 of the except clause
ExceptClause(r) ==
  LET error_count == r.error_count + 1
  IN  [r EXCEPT !.error_count = error_count,
                !.running = IF error_count >= r.max_error_burst THEN FALSE ELSE @,
                !.exc = "none", !.pc = "if_running"]

\* Variant: the handler only logs
handle_shutdown_only_logs(r) == r

\* BotRunner._handle_shutdown
_handle_shutdown(r) == [r EXCEPT !.running = FALSE]

Unused == <<cfg, ema_state, obs, op, cls, fetched, fv, gen, flt, dep>>

\* scripts/init_db.py: the database is created before the bot is started
InitializeDatabase ==
  /\ ~db.initialized
  /\ db' = initialize_database(db)
  /\ UNCHANGED <<runner, shutdown>>
  /\ UNCHANGED Unused

\* BotRunner.__init__ (lines 64-74), then run() up to its loop
BotRunnerInit ==
  /\ db.initialized /\ runner.pc = "new"
  /\ \E max_error_burst \in 1..MaxBurst :
        runner' = [runner EXCEPT !.pc = "while", !.running = TRUE, !.error_count = 0,
                                 !.max_error_burst = max_error_burst]
  /\ UNCHANGED <<db, shutdown>>
  /\ UNCHANGED Unused

\* Line 257: while self.running
WhileTest ==
  /\ runner.pc = "while"
  /\ runner' = [runner EXCEPT !.pc = IF runner.running THEN "run_cycle" ELSE "stopped"]
  /\ UNCHANGED <<db, shutdown>>
  /\ UNCHANGED Unused

\* Lines 83-89: run_cycle is entered and the cycle row is inserted with
\* status 'success', outside the try block
CreateCycle ==
  /\ runner.pc = "run_cycle"
  /\ \E c \in {create_cycle(db, "success")} :
        /\ db' = c.db
        /\ runner' = IF c.exc # "none" THEN [runner EXCEPT !.pc = "crashed", !.exc = c.exc]
                      ELSE [runner EXCEPT !.pc = "try", !.cycle_id = c.ret,
                                          !.orderbooks = <<>>]
  /\ UNCHANGED shutdown
  /\ UNCHANGED Unused

\* Lines 91-234: the try block.  It either completes (error_count = 0) or
\* leaves an exception for the except clause.
Try ==
  /\ runner.pc = "try"
  /\ \E discovery \in DiscoveryOutcomes, orderbooks \in FetchedLists :
      \E t \in {TryBlock(db, ema_state, runner.cycle_id, discovery, orderbooks)} :
        /\ db' = t.db
        /\ ema_state' = t.ema_state
        /\ obs' = ExtendObs(obs, t.fv_calls)
        /\ runner' = IF t.exc # "none"
                        THEN [runner EXCEPT !.pc = "except", !.exc = t.exc,
                                !.orderbooks = IF discovery = "ok" THEN orderbooks ELSE <<>>]
                      ELSE [runner EXCEPT !.pc = "if_running", !.error_count = 0,
                                !.orderbooks = orderbooks]
  /\ UNCHANGED <<shutdown, cfg, op, cls, fetched, fv, gen, flt, dep>>

\* Lines 236-249: except Exception
Except ==
  /\ runner.pc = "except"
  /\ db' = update_cycle(db, runner.cycle_id, "error")
  /\ runner' = ExceptClause(runner)
  /\ UNCHANGED shutdown
  /\ UNCHANGED Unused

\* Line 260: if self.running
IfRunning ==
  /\ runner.pc = "if_running"
  /\ runner' = [runner EXCEPT !.pc = IF runner.running THEN "sleep" ELSE "while"]
  /\ UNCHANGED <<db, shutdown>>
  /\ UNCHANGED Unused

\* Lines 261-265: sleep(add_jitter(interval, jitter)) returns
Sleep ==
  /\ runner.pc = "sleep"
  /\ runner' = [runner EXCEPT !.pc = "while"]
  /\ UNCHANGED <<db, shutdown>>
  /\ UNCHANGED Unused

\* SIGINT or SIGTERM is delivered between two steps of the main thread, at
\* any point after the handlers are installed and before run() returns
HandleShutdown ==
  /\ runner.pc \notin {"new", "stopped", "crashed"}
  /\ runner' = _handle_shutdown(runner)
  /\ shutdown' = IF shutdown.handled THEN shutdown
                  ELSE [handled |-> TRUE, at |-> runner.pc, cycle_id |-> runner.cycle_id]
  /\ UNCHANGED db
  /\ UNCHANGED Unused

\* The steps of the main thread
RunnerStep == BotRunnerInit \/ WhileTest \/ CreateCycle \/ Try \/ Except \/ IfRunning \/ Sleep

NextRunner == InitializeDatabase \/ RunnerStep \/ HandleShutdown
SpecRunner == Init /\ [][NextRunner]_vars

\* The main thread keeps running: every call it makes returns or raises
SpecRunnerLive == SpecRunner /\ WF_vars(RunnerStep) /\ WF_vars(InitializeDatabase)

\* ------------------------------------------------------------------------
\* Properties
\* ------------------------------------------------------------------------
ValidMid(mid_price) == ~IsNone(mid_price) /\ FGt(mid_price, Zero)
NoUsableMid(mid_price) == IsNone(mid_price) \/ FLe(mid_price, Zero)

\* C1: generate_signals never raises: every call, on the empty list as on
\* any list of snapshots, completes normally and returns a list.
C1_NeverRaises == op = "generate_signals" => gen.exc = "none"

HasCandidate(signals, book, side) ==
  \E i \in 1..Len(signals) :
    /\ signals[i].market_id = book.market_id
    /\ signals[i].token_id = book.token_id
    /\ signals[i].side = side

\* C2: for every snapshot of the input, the candidate list before
\* truncation holds a buy candidate of that snapshot iff its p_exec_buy is
\* > 0 and finite, and a sell candidate iff its p_exec_sell is > 0 and finite.
C2_SymmetricEmission ==
  op = "generate_signals" =>
    \A i \in 1..Len(gen.books) :
      LET pr == _implied_probs(gen.books[i])
      IN  /\ HasCandidate(gen.signals, gen.books[i], "buy")
               <=> (FGt(pr.p_exec_buy, Zero) /\ IsFinite(pr.p_exec_buy))
          /\ HasCandidate(gen.signals, gen.books[i], "sell")
               <=> (FGt(pr.p_exec_sell, Zero) /\ IsFinite(pr.p_exec_sell))

\* The five rules of the validity classifier, in their listed order
RuleMatches(i, best_bid, best_ask) ==
  CASE i = 1 -> IsNone(best_bid)
    [] i = 2 -> IsNone(best_ask)
    [] i = 3 -> best_bid.k \in {"nan", "pinf", "ninf"} \/ best_ask.k \in {"nan", "pinf", "ninf"}
    [] i = 4 -> (~IsNone(best_bid) /\ FLt(best_bid, Zero)) \/ (~IsNone(best_ask) /\ FGt(best_ask, One))
    [] i = 5 -> ~IsNone(best_bid) /\ ~IsNone(best_ask) /\ FLe(best_ask, best_bid)
RuleReason(i) == <<NO_BID, NO_ASK, NAN_OR_INF, OUT_OF_RANGE, CROSSED_OR_LOCKED>>[i]
MatchingRules(best_bid, best_ask) == { i \in 1..5 : RuleMatches(i, best_bid, best_ask) }

\* C3: classify_book_validity returns the reason of the earliest rule, in the
\* order NO_BID, NO_ASK, NAN_OR_INF, OUT_OF_RANGE, CROSSED_OR_LOCKED, that the
\* pair matches, and None when it matches no rule.
C3_EarliestReason ==
  op = "classify_book_validity" =>
    LET M == MatchingRules(cls.best_bid, cls.best_ask)
    IN  IF M = {} THEN cls.reason = NoReason
        ELSE cls.reason = RuleReason(CHOOSE i \in M : \A j \in M : i <= j)

\* a classified pair that matches the range rule and the crossed rule
C3_Witness ==
  /\ op = "classify_book_validity"
  /\ {4, 5} \subseteq MatchingRules(cls.best_bid, cls.best_ask)
  /\ cls.reason = OUT_OF_RANGE

\* C4: a snapshot built by fetch_orderbook has validity_reason None iff
\* best_bid and best_ask are present and finite, 0 <= best_bid,
\* best_ask <= 1, best_ask > best_bid and its mid_price > 0.
C4_ValidIff ==
  (op = "fetch_orderbook" /\ fetched.result.returned) =>
    LET b == fetched.result.book
    IN  (b.validity_reason = NoReason)
          <=> /\ ~IsNone(b.best_bid) /\ ~IsNone(b.best_ask)
              /\ IsFinite(b.best_bid) /\ IsFinite(b.best_ask)
              /\ FLe(Zero, b.best_bid) /\ FLe(b.best_ask, One)
              /\ FGt(b.best_ask, b.best_bid)
              /\ FGt(b.mid_price, Zero)

\* a valid snapshot built from a two-sided ladder
C4_Witness ==
  /\ op = "fetch_orderbook" /\ fetched.result.returned
  /\ fetched.result.book.validity_reason = NoReason
  /\ FGt(fetched.result.book.mid_price, Zero)

\* C5: whatever the bid and ask levels of the raw book (empty, absent,
\* malformed), fetch_orderbook yields a snapshot.
C5_AlwaysASnapshot ==
  (op = "fetch_orderbook" /\ fetched.raw.status = "book") => fetched.result.returned

\* C6: on a snapshot with no usable mid (absent or <= 0) fair_value_prob
\* returns the token's stored EMA if there is one, and 0.5 otherwise.
C6_FallbackToStoredEma ==
  (op = "fair_value_prob" /\ NoUsableMid(fv.mid_price)) =>
    fv.ret = IF ~IsNone(ema_state[fv.token_id]) THEN ema_state[fv.token_id] ELSE Half

\* The EMA of a sequence of mids: the first mid, then alpha*m + (1-alpha)*prev
RECURSIVE EmaOf(_)
EmaOf(ms) ==
  IF ms = <<>> THEN NoneV
  ELSE IF Len(ms) = 1 THEN ms[1]
  ELSE FAdd(FMul(cfg.ema_alpha, ms[Len(ms)]),
            FMul(FSub(One, cfg.ema_alpha), EmaOf(SubSeq(ms, 1, Len(ms) - 1))))

\* C7: the EMA stored for a token is the first valid mid seen, and after each
\* later valid mid m it is alpha*m + (1-alpha)*(the EMA stored before), whatever
\* invalid snapshots and calls for other tokens come in between.
C7_EmaRecurrence == \A t \in Tokens : ema_state[t] = EmaOf(obs[t])

\* two valid mids of one token, then an invalid snapshot of that token
C7_Witness ==
  /\ op = "fair_value_prob" /\ NoUsableMid(fv.mid_price)
  /\ Len(obs[fv.token_id]) >= 2
  /\ ema_state[fv.token_id] # obs[fv.token_id][Len(obs[fv.token_id])]

\* C8: a fair_value_prob call on a snapshot with no usable mid leaves the
\* EMA map as it was.
C8_InvalidLeavesEma ==
  [][(op' = "fair_value_prob" /\ NoUsableMid(fv'.mid_price)) => ema_state' = ema_state]_vars

\* an invalid snapshot of a token that has a stored EMA
C8_Witness ==
  /\ op = "fair_value_prob" /\ NoUsableMid(fv.mid_price)
  /\ ~IsNone(ema_state[fv.token_id])

\* C9: a fair_value_prob call for one token leaves the EMA of every other
\* token as it was, and the value it returns is determined by the mids seen
\* for its own token.
C9_TokensIndependent ==
  /\ [](op = "fair_value_prob" =>
          fv.ret = IF ValidMid(fv.mid_price) THEN Clamp01(EmaOf(obs[fv.token_id]))
                   ELSE Half)
  /\ [][op' = "fair_value_prob" =>
          \A t \in Tokens \ {fv'.token_id} : ema_state'[t] = ema_state[t]]_vars

\* a valid snapshot of one token while another token holds a different EMA
C9_Witness ==
  /\ op = "fair_value_prob" /\ ValidMid(fv.mid_price)
  /\ \E t \in Tokens \ {fv.token_id} :
       ~IsNone(ema_state[t]) /\ ema_state[t] # ema_state[fv.token_id]

OrdinaryOutcomes == {NoReason, SPREAD_TOO_WIDE, DEPTH_TOO_THIN, SNAPSHOT_STALE}

CandidateOf(signal, book) ==
  signal.market_id = book.market_id /\ signal.token_id = book.token_id

IndexOrders(n) == { p \in [1..n -> 1..n] : \A i, j \in 1..n : p[i] = p[j] => i = j }

\* Every ordering of the snapshots of books
Reorderings(books) ==
  { [i \in 1..Len(books) |-> books[p[i]]] : p \in IndexOrders(Len(books)) }

DistinctKeys(books) ==
  \A i, j \in 1..Len(books) :
     i # j => ~(books[i].market_id = books[j].market_id
                /\ books[i].token_id = books[j].token_id)

\* The call that just ended has, on the reordering p of its input and from the
\* EMA state it started in, the same outcome and the same resulting EMA state
SameOutcomeOn(p) ==
  \A r \in {generate_signals(ema_state, gen'.cycle_id, p)} :
      /\ r.exc = gen'.exc
      /\ r.ret = gen'.ret
      /\ r.signals = gen'.signals
      /\ r.ema_state = ema_state'

SpreadFails ==
  LET spread_bps == IF IsNone(flt.book.spread_bps) THEN F(99999, 1) ELSE flt.book.spread_bps
  IN  FGt(spread_bps, cfg.max_spread_bps)

DepthFails ==
  LET depth == IF IsNone(flt.book.depth_within_1pct) THEN Zero ELSE flt.book.depth_within_1pct
  IN  FLt(depth, cfg.min_depth_usdc)

StaleFails ==
  ~IsNone(flt.snapshot_age_s) /\ FGt(flt.snapshot_age_s, cfg.max_snapshot_age_s)

\* C14: apply evaluates spread, then depth, then staleness and reports the
\* first failing rule: spread_too_wide whenever the spread rule fails,
\* depth_too_thin when spread passes and depth fails, and snapshot_stale
\* exactly when spread and depth pass and the supplied age is too old.
C14_FirstFailingRule ==
  op = "apply" =>
    /\ SpreadFails => flt.result.reason = SPREAD_TOO_WIDE
    /\ (~SpreadFails /\ DepthFails) => flt.result.reason = DEPTH_TOO_THIN
    /\ flt.result.reason = SNAPSHOT_STALE <=> (~SpreadFails /\ ~DepthFails /\ StaleFails)

\* A snapshot that fails all three rules is reported as spread_too_wide
C14_Witness ==
  /\ op = "apply"
  /\ SpreadFails /\ DepthFails /\ StaleFails
  /\ flt.result.reason = SPREAD_TOO_WIDE

HasCandidateWithReason(signals, book, side, reason) ==
  \E i \in 1..Len(signals) :
    /\ signals[i].market_id = book.market_id
    /\ signals[i].token_id = book.token_id
    /\ signals[i].side = side
    /\ signals[i].filter_reason = reason

\* C16: filters annotate and never delete: a snapshot that fails a filter
\* rule and has a positive finite executable price still has its candidate
\* in the list before truncation, with the failing rule as filter_reason.
C16_FiltersAnnotate ==
  op = "generate_signals" =>
    \A i \in 1..Len(gen.books) :
      LET book == gen.books[i]
          pr == _implied_probs(book)
          filt == apply(book, NoneV)
      IN  ~filt.accepted =>
            /\ (FGt(pr.p_exec_buy, Zero) /\ IsFinite(pr.p_exec_buy))
                  => HasCandidateWithReason(gen.signals, book, "buy", filt.reason)
            /\ (FGt(pr.p_exec_sell, Zero) /\ IsFinite(pr.p_exec_sell))
                  => HasCandidateWithReason(gen.signals, book, "sell", filt.reason)

\* ------------------------------------------------------------------------
\* Derived fields of a snapshot
\* ------------------------------------------------------------------------
\* C17: every snapshot with validity_reason not None has mid_price = 0.0,
\* spread_bps = None and depth_within_1pct = 0.0.
C17_InvalidDerivedFields ==
  (op = "fetch_orderbook" /\ fetched.result.returned
     /\ fetched.result.book.validity_reason # NoReason)
    => /\ fetched.result.book.mid_price = Zero
       /\ IsNone(fetched.result.book.spread_bps)
       /\ fetched.result.book.depth_within_1pct = Zero

\* A snapshot the raw classification passed and the mid re-check marked
\* invalid (bid 0.0, ask 5e-324), with the three fields reset
C17_Witness ==
  /\ op = "fetch_orderbook" /\ fetched.result.returned
  /\ classify_book_validity(fetched.result.book.best_bid, fetched.result.book.best_ask) = NoReason
  /\ fetched.result.book.validity_reason = INVALID_MID
  /\ fetched.result.book.mid_price = Zero
  /\ IsNone(fetched.result.book.spread_bps)
  /\ fetched.result.book.depth_within_1pct = Zero

\* C20: for every valid snapshot mid_price = (best_bid + best_ask) / 2 and
\* spread_bps = (best_ask - best_bid) / mid_price * 10000, which is strictly
\* positive; bid 0.40, ask 0.45 gives mid 0.425 and about 1176.47 bps.
C20_SpreadFormula ==
  (op = "fetch_orderbook" /\ fetched.result.returned
     /\ fetched.result.book.validity_reason = NoReason)
    => LET book == fetched.result.book
           mid == FDiv(FAdd(book.best_bid, book.best_ask), F(2, 1))
       IN  /\ book.mid_price = mid
           /\ book.spread_bps = FMul(FDiv(FSub(book.best_ask, book.best_bid), mid), F(10000, 1))
           /\ IsFinite(book.spread_bps) /\ FGt(book.spread_bps, Zero)
           /\ (book.best_bid = F(2, 5) /\ book.best_ask = F(9, 20))
                 => /\ book.mid_price = F(17, 40)
                    /\ FGe(book.spread_bps, F(117647, 100))
                    /\ FLe(book.spread_bps, F(117648, 100))

\* The valid snapshot with bid 0.40 and ask 0.45
C20_Witness ==
  /\ op = "fetch_orderbook" /\ fetched.result.returned
  /\ fetched.result.book.validity_reason = NoReason
  /\ fetched.result.book.best_bid = F(2, 5)
  /\ fetched.result.book.best_ask = F(9, 20)
  /\ fetched.result.book.mid_price = F(17, 40)

\* ------------------------------------------------------------------------
\* Range of the fair value
\* ------------------------------------------------------------------------
\* C18: fair_value_prob returns a value in [0,1] for every snapshot and every
\* prior EMA state, also when mid_price lies outside [0,1] or is absent.
C18_FairValueInUnitInterval ==
  op = "fair_value_prob" =>
    /\ IsFinite(fv.ret)
    /\ FGe(fv.ret, Zero)
    /\ FLe(fv.ret, One)

\* A mid of 1.2 on a token whose EMA is above 1: the call returns 1.0
C18_Witness ==
  /\ op = "fair_value_prob"
  /\ fv.mid_price = F(6, 5)
  /\ ~IsNone(ema_state[fv.token_id]) /\ FGt(ema_state[fv.token_id], One)
  /\ fv.ret = One

\* ------------------------------------------------------------------------
\* Depth within 1% of the mid
\* ------------------------------------------------------------------------
\* Sum of price * size over the levels of a ladder on the mid's side of thr
RECURSIVE NotionalOf(_, _, _, _)
NotionalOf(levels, i, side, thr) ==
  IF i = 0 THEN Zero
  ELSE LET p == levels[i].price
           kept == IF side = "bid" THEN FGe(p, thr) ELSE FLe(p, thr)
       IN  FAdd(NotionalOf(levels, i - 1, side, thr),
                IF kept THEN FMul(p, levels[i].size) ELSE Zero)

DepthAsSpecified ==
  IF FLe(dep.mid_price, Zero) THEN Zero
  ELSE FAdd(NotionalOf(dep.bids, Len(dep.bids), "bid", FMul(F(99, 100), dep.mid_price)),
            NotionalOf(dep.asks, Len(dep.asks), "ask", FMul(F(101, 100), dep.mid_price)))

SizesNonNegative ==
  /\ \A i \in 1..Len(dep.bids) : FGe(dep.bids[i].size, Zero)
  /\ \A i \in 1..Len(dep.asks) : FGe(dep.asks[i].size, Zero)

PricesNonNegative ==
  /\ \A i \in 1..Len(dep.bids) : FGe(dep.bids[i].price, Zero)
  /\ \A i \in 1..Len(dep.asks) : FGe(dep.asks[i].price, Zero)

FirstStagePasses ==
  classify_book_validity(fetched.result.book.best_bid, fetched.result.book.best_ask) = NoReason

\* C25 as stated: every (best_bid, best_ask) pair that passes the five
\* first-stage checks gives a finite mid_price > 0, so no snapshot returned
\* by fetch_orderbook carries validity_reason = invalid_mid.
C25_InvalidMidUnreachable ==
  (op = "fetch_orderbook" /\ fetched.result.returned)
    => /\ fetched.result.book.validity_reason # INVALID_MID
       /\ FirstStagePasses => (IsFinite(fetched.result.book.mid_price)
                                 /\ FGt(fetched.result.book.mid_price, Zero))

\* C25 amended: a snapshot carries invalid_mid exactly when the pair passes
\* the first stage with best_bid = 0.0 and best_ask the smallest positive
\* float, whose half-sum rounds to 0.0; every other pair that passes the
\* first stage gives a finite mid_price > 0.
C25_InvalidMidOnlyByUnderflow ==
  (op = "fetch_orderbook" /\ fetched.result.returned)
    => /\ fetched.result.book.validity_reason = INVALID_MID
            <=> (FirstStagePasses /\ fetched.result.book.best_bid = Zero
                                  /\ fetched.result.book.best_ask = MinSubnormal)
       /\ (FirstStagePasses /\ fetched.result.book.validity_reason # INVALID_MID)
            => (IsFinite(fetched.result.book.mid_price)
                  /\ FGt(fetched.result.book.mid_price, Zero))

\* The book with best bid "0" and best ask "5e-324" comes back as invalid_mid
C25_Witness ==
  /\ op = "fetch_orderbook" /\ fetched.result.returned
  /\ fetched.result.book.best_bid = Zero
  /\ fetched.result.book.best_ask = MinSubnormal
  /\ fetched.result.book.validity_reason = INVALID_MID

\* ------------------------------------------------------------------------
\* Range and permanence of the stored EMA
\* ------------------------------------------------------------------------
RECURSIVE MinOf(_)
MinOf(ms) ==
  IF Len(ms) = 1 THEN ms[1] ELSE PyMin(ms[Len(ms)], MinOf(SubSeq(ms, 1, Len(ms) - 1)))

RECURSIVE MaxOf(_)
MaxOf(ms) ==
  IF Len(ms) = 1 THEN ms[1] ELSE PyMax(ms[Len(ms)], MaxOf(SubSeq(ms, 1, Len(ms) - 1)))

InUnitHalfOpen(x) == FGt(x, Zero) /\ FLe(x, One)

EmaWithinObserved ==
  \A t \in Tokens :
    /\ obs[t] = <<>> => IsNone(ema_state[t])
    /\ obs[t] # <<>> =>
         /\ FGe(ema_state[t], MinOf(obs[t]))
         /\ FLe(ema_state[t], MaxOf(obs[t]))
         /\ (\A i \in 1..Len(obs[t]) : InUnitHalfOpen(obs[t][i])) => InUnitHalfOpen(ema_state[t])

EmaKept == \A t \in Tokens : ~IsNone(ema_state[t]) => ~IsNone(ema_state'[t])

EdgesComputedOnValidBook ==
  /\ op = "generate_signals" /\ gen.locals.bound
  /\ gen.locals.book.validity_reason = NoReason

C27_FirstObservation ==
  /\ EdgesComputedOnValidBook
  /\ IsNone(gen.locals.prev)
  /\ FLt(gen.locals.edge_buy_bps, Zero)

\* ------------------------------------------------------------------------
\* Ledger and runner
\* ------------------------------------------------------------------------
CycleOver == runner.pc = "if_running"

SummaryOf(cycle_id, book) ==
  [cycle_id |-> cycle_id, market_id |-> book.market_id, token_id |-> book.token_id,
   best_bid |-> book.best_bid, best_ask |-> book.best_ask, mid_price |-> book.mid_price,
   spread_bps |-> book.spread_bps, depth_within_1pct |-> book.depth_within_1pct,
   validity_reason |-> book.validity_reason]

\* C22: when a cycle is over, every snapshot fetched in it has its derived
\* fields (validity_reason, mid_price, spread_bps, depth_within_1pct) stored
\* as an orderbook summary of that cycle, whatever signal generation did.
C22_SummariesPersisted ==
  CycleOver =>
    \A i \in 1..Len(runner.orderbooks) :
      \E j \in 1..Len(db.orderbook_summaries) :
        db.orderbook_summaries[j] = SummaryOf(runner.cycle_id, runner.orderbooks[i])

StoreTables ==
  {"cycles", "account_states", "estimates", "decisions", "paper_fills", "signals"}

\* C24: after initialize_database every table the Store writes to exists:
\* cycles, account_states, estimates, decisions, paper_fills and signals.
C24_AllTablesExist == db.initialized => StoreTables \subseteq db.tables

ExceptStep == runner.pc = "except" /\ runner'.pc # "except"
SuccessStep == runner.pc = "try" /\ runner'.pc = "if_running"
CycleStartStep == runner.pc = "while" /\ runner'.pc = "run_cycle"
SleepStep == runner.pc = "sleep" /\ runner'.pc # "sleep"

ErrorBurstStep ==
  /\ ExceptStep =>
       /\ runner'.error_count = runner.error_count + 1
       /\ runner'.pc = "if_running" /\ runner'.exc = "none"
       /\ db'.cycles[runner.cycle_id].status = "error"
       /\ runner'.error_count >= runner.max_error_burst => ~runner'.running
       /\ runner'.error_count < runner.max_error_burst => runner'.running = runner.running
  /\ SuccessStep =>
       /\ runner'.error_count = 0
       /\ db'.cycles[runner.cycle_id].status = "success"
  /\ (~ExceptStep /\ ~SuccessStep) => runner'.error_count = runner.error_count
  /\ CycleStartStep => runner.error_count < runner.max_error_burst

ErrorCountInv ==
  /\ runner.pc \notin {"new", "run_cycle", "try", "except", "crashed"} =>
       \* error_count is the number of failed cycles at the end of the table
       /\ runner.error_count <= Len(db.cycles)
       /\ \A i \in 1..Len(db.cycles) :
             (i > Len(db.cycles) - runner.error_count) => db.cycles[i].status = "error"
       /\ runner.error_count < Len(db.cycles) =>
             db.cycles[Len(db.cycles) - runner.error_count].status = "success"
  /\ runner.pc # "crashed"
  /\ (runner.pc # "new" /\ runner.error_count >= runner.max_error_burst
         /\ runner.pc # "except") => ~runner.running

ShutdownInCycle == shutdown.handled /\ shutdown.at \in {"run_cycle", "try", "except"}

\* The cycle the handler interrupted: the one being started, or the current one
InterruptedCycle == IF shutdown.at = "run_cycle" THEN shutdown.cycle_id + 1 ELSE shutdown.cycle_id

CycleCompleted(row) == row.status = "error" \/ row.execution_time_ms = "set"

GracefulStep ==
  /\ (runner.pc # "new" /\ ~runner.running) => ~runner'.running
  /\ shutdown.handled => ~runner.running
  /\ ShutdownInCycle =>
       /\ ~SleepStep /\ runner'.pc # "sleep"
       /\ ~CycleStartStep

GracefulInv ==
  (ShutdownInCycle /\ runner.pc = "stopped") =>
    /\ Len(db.cycles) = InterruptedCycle
    /\ CycleCompleted(db.cycles[InterruptedCycle])

\* C29: once the handler has set running to False during a cycle, that cycle
\* runs to completion, no further cycle is started, no sleep is taken after
\* it and run() terminates; running is never set back to True.
C29_GracefulShutdown ==
  /\ [][GracefulStep]_vars
  /\ []GracefulInv
  /\ (shutdown.handled ~> runner.pc = "stopped")

\* run() has returned after a signal that arrived inside the try block of
\* the first cycle, before the error limit was reached
C29_Witness ==
  /\ runner.pc = "stopped" /\ shutdown.handled /\ shutdown.at = "try"
  /\ runner.error_count < runner.max_error_burst
  /\ Len(db.cycles) = 1 /\ CycleCompleted(db.cycles[1])

====
